---- MODULE Spec2Model ----
(***************************************************************************)
(* ChittyTrust: the database-backed 6D trust calculation of                *)
(* chitty_workflow.py, the score synthesis repeated in sample_data.py and  *)
(* chitty_id_integration.py, the score-to-level functions, the rolling    *)
(* timeline of app.py, the five-step verification workflow of              *)
(* chitty_workflow.py and the request marketplace of marketplace.py.       *)
(*                                                                         *)
(* Python floats are modelled as exact rationals [n |-> numerator,         *)
(* d |-> denominator] in lowest terms with d > 0, so equality of two       *)
(* scores is equality of the records.                                      *)
(***************************************************************************)
EXTENDS Integers, Sequences, FiniteSets, TLC

VARIABLES
    user,            \* the User row found by chitty_id, or NoUser
    verifications,   \* the user's VerificationRequest rows
    trust_history,   \* composite_score of the user's TrustHistory rows, newest first
    now,             \* the wall clock read by datetime.utcnow()
    result,          \* what the last _chitty_trust_calculation returned
    prev_result,     \* what the call before it returned
    calc_rows,       \* the VerificationRequest rows the last calculation read
    prev_calc_rows,  \* the rows the calculation before it read
    calc_history,    \* the TrustHistory scores the last calculation read
    prev_calc_history, \* the scores the calculation before it read
    dims,            \* six dimension scores handed to the synthesis code
    out,             \* chitty/people/legal/state computed per call site for dims
    prev_dims,       \* the vector of the previous round of synthesis calls
    prev_out,        \* and what each call site computed for it
    level_call,      \* the last score-to-level call: function, score, returned value
    events,          \* timestamps of the persona's events, in stored order
    rolling_scores,  \* rolling_scores built by get_trust_timeline
    timeline,        \* timeline_data built by get_trust_timeline (dates)
    timeline_status, \* "idle" before get_trust_timeline has answered, then "done"
    workflow,        \* the execution of execute_trust_verification_workflow in progress
    chain,           \* what chittychain_client.record_trust_event has written
    ledger,          \* what evidence_ledger.record_trust_evidence has stored
    requests,        \* the verification_requests table, indexed by id
    claim_calls,     \* per verifier, the claim_verification_request call in progress
    local_cache,     \* ChittyChainLedger.local_cache, entries in insertion order
    issued_tx,       \* transaction ids record_trust_event has returned
    reported,        \* entry ids create_ledger_entry has returned to a caller
    ledger_call      \* the last call on the ledger or the chain client: function, argument, returned value

vars == <<user, verifications, trust_history, now, result, prev_result,
          calc_rows, prev_calc_rows,
          calc_history, prev_calc_history,
          dims, out, prev_dims, prev_out, level_call,
          events, rolling_scores, timeline, timeline_status,
          workflow, chain, ledger, requests, claim_calls,
          local_cache, issued_tx, reported, ledger_call>>

scorerVars == <<user, verifications, trust_history, now, result, prev_result,
                calc_rows, prev_calc_rows,
          calc_history, prev_calc_history>>
synthVars == <<dims, out, prev_dims, prev_out>>
levelVars == <<level_call>>
timelineVars == <<events, rolling_scores, timeline, timeline_status>>
workflowVars == <<workflow, chain, ledger>>
marketVars == <<requests, claim_calls>>
ledgerVars == <<local_cache, issued_tx, reported, ledger_call>>

(***************************************************************************)
(* Bounds                                                                  *)
(***************************************************************************)
MaxReqs == 2        \* verification requests per user
MaxHist == 2        \* trust-history rows per user
MaxClock == 1       \* clock ticks
MaxCreated == 4     \* requests created through the marketplace
MaxWfReqs == 1      \* verification requests of the user the workflow runs for
MaxRuns == 2        \* trust-history rows the workflow and the recorder add
MaxRequests == 2    \* rows of the verification_requests table
MaxVerifiers == 2   \* verifiers claiming requests
GridSteps == 1      \* dimension scores are sampled at 100*k/GridSteps
MaxEvents == 22     \* events of a persona
MaxEntries == 2     \* entries of the ledger's local_cache
MaxRemote == 2      \* entries the distributed ledger answers with
MaxLimit == 2       \* the limit of a history query
ScoreDenom == 1     \* level functions are sampled at k/ScoreDenom, 0 <= k <= 100*ScoreDenom

\* absent values; rows and results are records, so these are records too
None == [none |-> TRUE]
NoUser == [missing |-> TRUE]

(***************************************************************************)
(* Exact rational arithmetic standing for float arithmetic                 *)
(***************************************************************************)
Abs(x) == IF x < 0 THEN -x ELSE x

RECURSIVE GCD(_, _)
GCD(a, b) == IF b = 0 THEN a ELSE GCD(b, a % b)

Rat(n, d) ==
    LET g == GCD(Abs(n), d)
    IN  [n |-> n \div g, d |-> d \div g]

R(k) == [n |-> k, d |-> 1]

RAdd(a, b) == Rat(a.n * b.d + b.n * a.d, a.d * b.d)
RSub(a, b) == Rat(a.n * b.d - b.n * a.d, a.d * b.d)
RMul(a, b) == Rat(a.n * b.n, a.d * b.d)
RDivInt(a, k) == Rat(a.n, a.d * k)
RLe(a, b) == a.n * b.d <= b.n * a.d
RLt(a, b) == a.n * b.d < b.n * a.d
RMin(a, b) == IF RLt(b, a) THEN b ELSE a      \* Python min(a, b)
RMax(a, b) == IF RLt(a, b) THEN b ELSE a      \* Python max(a, b)
InRange(a) == RLe(R(0), a) /\ RLe(a, R(100))

(***************************************************************************)
(* Rows of the database                                                    *)
(***************************************************************************)
\* User columns the scorers read; a column is TRUE when it holds a
\* non-empty value.
Users ==
    { [email |-> TRUE, first_name |-> TRUE, last_name |-> TRUE,
       profile_image_url |-> FALSE],       \* as create_sample_users makes them
      [email |-> TRUE, first_name |-> TRUE, last_name |-> TRUE,
       profile_image_url |-> TRUE],
      [email |-> TRUE, first_name |-> FALSE, last_name |-> FALSE,
       profile_image_url |-> FALSE],
      [email |-> FALSE, first_name |-> FALSE, last_name |-> FALSE,
       profile_image_url |-> FALSE] }

\* VerificationRequest rows: status, verification_type, priority and
\* reward_amount, which create_verification_request stores as any float.
RequestRows ==
    { [status |-> "open", verification_type |-> "identity",
       priority |-> "normal", reward_amount |-> 75],
      [status |-> "open", verification_type |-> "document",
       priority |-> "high", reward_amount |-> 25],
      [status |-> "completed", verification_type |-> "identity",
       priority |-> "high", reward_amount |-> 900],
      [status |-> "completed", verification_type |-> "skill",
       priority |-> "normal", reward_amount |-> -700] }

\* composite_score values of TrustHistory rows
HistoryScores == {R(40), R(55), R(60)}

SeqsUpTo(S, n) == UNION { [1..k -> S] : k \in 0..n }

(***************************************************************************)
(* Dimension scorers of ChittyWorkflow                                     *)
(***************************************************************************)
IsCompleted(v) == v.status = "completed"
IsHighPriority(v) == v.priority = "high"

CountCompleted(vs) == Cardinality({ i \in DOMAIN vs : IsCompleted(vs[i]) })
CountHighPriority(vs) == Cardinality({ i \in DOMAIN vs : IsHighPriority(vs[i]) })

_calculate_source_trust(u, vs) ==
    IF vs = <<>> THEN R(50)
    ELSE LET completed_verifications == CountCompleted(vs)
             verification_success_rate == Rat(completed_verifications, Len(vs))
             base_score == IF u.email THEN R(60) ELSE R(40)
             success_bonus == RMul(verification_success_rate, R(30))
         IN  RMin(R(100), RAdd(base_score, success_bonus))

RECURSIVE SquaredDeviations(_, _)
SquaredDeviations(scores, mean) ==
    IF scores = <<>> THEN R(0)
    ELSE LET dev == RSub(scores[1], mean)
         IN  RAdd(RMul(dev, dev), SquaredDeviations(Tail(scores), mean))

RECURSIVE RSum(_)
RSum(s) == IF s = <<>> THEN R(0) ELSE RAdd(s[1], RSum(Tail(s)))

\* variant: the empty-history default drifts with the wall clock
temporal_trust_reads_clock(hist) ==
    IF hist = <<>> THEN R(50 + now)
    ELSE IF Len(hist) < 2 THEN R(65)
    ELSE LET mean == RDivInt(RSum(hist), Len(hist))
             variance == RDivInt(SquaredDeviations(hist, mean), Len(hist))
             consistency_score == RMax(R(0), RSub(R(100), RMul(variance, R(2))))
         IN  RMin(R(100), consistency_score)

\* variant: one snapshot is taken to be enough for a variance
temporal_trust_one_is_enough(hist) ==
    IF hist = <<>> THEN R(50)
    ELSE IF Len(hist) < 1 THEN R(65)
    ELSE LET mean == RDivInt(RSum(hist), Len(hist))
             variance == RDivInt(SquaredDeviations(hist, mean), Len(hist))
             consistency_score == RMax(R(0), RSub(R(100), RMul(variance, R(2))))
         IN  RMin(R(100), consistency_score)

\* variant: the sample variance (n - 1) instead of the population variance
temporal_trust_sample_variance(hist) ==
    IF hist = <<>> THEN R(50)
    ELSE IF Len(hist) < 2 THEN R(65)
    ELSE LET mean == RDivInt(RSum(hist), Len(hist))
             variance == RDivInt(SquaredDeviations(hist, mean), Len(hist) - 1)
             consistency_score == RMax(R(0), RSub(R(100), RMul(variance, R(2))))
         IN  RMin(R(100), consistency_score)

_calculate_temporal_trust(hist) ==
    IF hist = <<>> THEN R(50)
    ELSE IF Len(hist) < 2 THEN R(65)
    ELSE LET mean == RDivInt(RSum(hist), Len(hist))
             variance == RDivInt(SquaredDeviations(hist, mean), Len(hist))
             consistency_score == RMax(R(0), RSub(R(100), RMul(variance, R(2))))
         IN  RMin(R(100), consistency_score)

\* variant: no early return and no floor
channel_trust_without_floor(vs) ==
    LET unique_types == { vs[i].verification_type : i \in DOMAIN vs }
    IN  RMin(R(100), R(Cardinality(unique_types) * 20))

\* variant: every further channel lowers the score
channel_trust_decreasing(vs) ==
    IF vs = <<>> THEN R(45)
    ELSE LET unique_types == { vs[i].verification_type : i \in DOMAIN vs }
             diversity_score ==
                 RMin(R(100), R(100 - Cardinality(unique_types) * 20))
         IN  RMax(R(45), diversity_score)

_calculate_channel_trust(vs) ==
    IF vs = <<>> THEN R(45)
    ELSE LET unique_types == { vs[i].verification_type : i \in DOMAIN vs }
             diversity_score == RMin(R(100), R(Cardinality(unique_types) * 20))
         IN  RMax(R(45), diversity_score)

RECURSIVE RewardSum(_)
RewardSum(vs) ==
    IF vs = <<>> THEN 0
    ELSE (IF IsCompleted(vs[1]) THEN vs[1].reward_amount ELSE 0) + RewardSum(Tail(vs))

_calculate_outcome_trust(vs) ==
    IF vs = <<>> THEN R(50)
    ELSE IF CountCompleted(vs) = 0 THEN R(55)
    ELSE LET avg_reward == Rat(RewardSum(vs), CountCompleted(vs))
         IN  RMin(R(100), RAdd(R(50), RDivInt(avg_reward, 10)))

profile_completeness(u) ==
    (IF u.first_name THEN 20 ELSE 0) + (IF u.last_name THEN 20 ELSE 0)
    + (IF u.email THEN 30 ELSE 0) + (IF u.profile_image_url THEN 30 ELSE 0)

_calculate_network_trust(u) ==
    RMin(R(100), R(profile_completeness(u) + 20))

\* variant: the community bonus is not capped
justice_trust_uncapped_bonus(u, vs) ==
    LET base_justice == R(70)
        high_priority_help == CountHighPriority(vs)
        community_bonus == R(high_priority_help * 5)
    IN  RMin(R(100), IF vs # <<>> THEN RAdd(base_justice, community_bonus)
                     ELSE base_justice)

_calculate_justice_trust(u, vs) ==
    LET base_justice == R(70)
        high_priority_help == CountHighPriority(vs)
        community_bonus == RMin(R(20), R(high_priority_help * 5))
    IN  RMin(R(100), IF vs # <<>> THEN RAdd(base_justice, community_bonus)
                     ELSE base_justice)

Dimensions == {"source", "temporal", "channel", "outcome", "network", "justice"}

(***************************************************************************)
(* Score synthesis: the three places that compute output scores            *)
(***************************************************************************)
Tenths(k) == Rat(k, 10)

\* variant: the three weights sum to 1.1
workflow_chitty_overweight(justice, outcome, composite_score) ==
    RAdd(RAdd(RMul(justice, Tenths(4)), RMul(outcome, Tenths(3))),
         RMul(composite_score, Tenths(4)))

\* chitty_workflow.py: ChittyScore from justice, outcome and the composite
workflow_chitty_score(justice, outcome, composite_score) ==
    RAdd(RAdd(RMul(justice, Tenths(4)), RMul(outcome, Tenths(3))),
         RMul(composite_score, Tenths(3)))

workflow_people_score(composite_score) == RMul(composite_score, Tenths(9))

\* trust_scores is a function from Dimensions to rationals
workflow_scores(trust_scores) ==
    LET composite_score ==
            RDivInt(RAdd(RAdd(RAdd(trust_scores["source"], trust_scores["temporal"]),
                              RAdd(trust_scores["channel"], trust_scores["outcome"])),
                         RAdd(trust_scores["network"], trust_scores["justice"])),
                    Cardinality(DOMAIN trust_scores))
    IN  [composite |-> composite_score,
         chitty |-> workflow_chitty_score(trust_scores["justice"],
                                          trust_scores["outcome"], composite_score),
         people |-> workflow_people_score(composite_score),
         legal |-> RDivInt(RAdd(trust_scores["source"], trust_scores["temporal"]), 2),
         state |-> trust_scores["source"]]

\* variant: the outcome term is subtracted
sample_chitty_minus_outcome(justice, outcome, source) ==
    RAdd(RSub(RMul(justice, Tenths(4)), RMul(outcome, Tenths(3))),
         RMul(source, Tenths(3)))

\* sample_data.py: chitty score of a generated history row
sample_chitty_score(justice, outcome, source) ==
    RAdd(RAdd(RMul(justice, Tenths(4)), RMul(outcome, Tenths(3))),
         RMul(source, Tenths(3)))

sample_scores(t) ==
    [people |-> RAdd(RAdd(RMul(t["outcome"], Tenths(3)), RMul(t["justice"], Tenths(3))),
                     RAdd(RMul(t["network"], Tenths(2)), RMul(t["source"], Tenths(2)))),
     legal |-> RAdd(RAdd(RMul(t["source"], Tenths(4)), RMul(t["temporal"], Tenths(3))),
                    RMul(t["channel"], Tenths(3))),
     state |-> RAdd(RAdd(RMul(t["source"], Tenths(5)), RMul(t["temporal"], Tenths(2))),
                    RMul(t["channel"], Tenths(3))),
     chitty |-> sample_chitty_score(t["justice"], t["outcome"], t["source"])]

\* Python round(x, 1): nearest tenth, ties to the even tenth
Round1(x) ==
    LET num == x.n * 10
        q == num \div x.d
        rem == num - q * x.d
    IN  IF 2 * rem < x.d THEN Rat(q, 10)
        ELSE IF 2 * rem > x.d THEN Rat(q + 1, 10)
        ELSE IF q % 2 = 0 THEN Rat(q, 10) ELSE Rat(q + 1, 10)

\* variant: justice and outcome weights exchanged
initial_chitty_swapped_weights(justice_score, outcome_score, source_score, other_avg) ==
    LET chitty_score ==
            RAdd(RAdd(RMul(justice_score, Tenths(3)),
                      RMul(outcome_score, Tenths(4))),
                 RAdd(RMul(source_score, Tenths(2)),
                      RMul(other_avg, Tenths(1))))
    IN  Round1(RMul(chitty_score, R(100)))

\* chitty_id_integration.py: the profile's dimension scores are on a 0..1
\* scale and the result is a percentage
initial_chitty_formula(justice_score, outcome_score, source_score, other_avg) ==
    LET justice_weight == Tenths(4)
        outcome_weight == Tenths(3)
        source_weight == Tenths(2)
        other_weight == Tenths(1)
        chitty_score ==
            RAdd(RAdd(RMul(justice_score, justice_weight),
                      RMul(outcome_score, outcome_weight)),
                 RAdd(RMul(source_score, source_weight),
                      RMul(other_avg, other_weight)))
    IN  Round1(RMul(chitty_score, R(100)))

_calculate_initial_chitty_score(profile) ==
    LET other_avg == RDivInt(RAdd(RAdd(profile["temporal"], profile["channel"]),
                                  profile["network"]), 3)
    IN  initial_chitty_formula(profile["justice"], profile["outcome"],
                               profile["source"], other_avg)

(***************************************************************************)
(* Score-to-level functions                                                *)
(***************************************************************************)
get_chitty_level(composite_score) ==
    IF RLe(R(90), composite_score) THEN [level |-> "L4", name |-> "Institutional"]
    ELSE IF RLe(R(75), composite_score) THEN [level |-> "L3", name |-> "Professional"]
    ELSE IF RLe(R(50), composite_score) THEN [level |-> "L2", name |-> "Enhanced"]
    ELSE IF RLe(R(25), composite_score) THEN [level |-> "L1", name |-> "Basic"]
    ELSE [level |-> "L0", name |-> "Anonymous"]

\* variant: the second comparison is reversed
get_trust_level_reversed_test(score) ==
    IF RLe(R(90), score) THEN "L4"
    ELSE IF RLe(score, R(75)) THEN "L3"
    ELSE IF RLe(R(50), score) THEN "L2"
    ELSE IF RLe(R(25), score) THEN "L1"
    ELSE "L0"

get_trust_level(score) ==
    IF RLe(R(90), score) THEN "L4"
    ELSE IF RLe(R(75), score) THEN "L3"
    ELSE IF RLe(R(50), score) THEN "L2"
    ELSE IF RLe(R(25), score) THEN "L1"
    ELSE "L0"

_get_trust_level(score) ==
    IF RLe(R(90), score) THEN "L4"
    ELSE IF RLe(R(75), score) THEN "L3"
    ELSE IF RLe(R(60), score) THEN "L2"
    ELSE IF RLe(R(40), score) THEN "L1"
    ELSE "L0"

_get_verification_level(composite_score) ==
    IF RLe(R(90), composite_score) THEN "L4_PLATINUM"
    ELSE IF RLe(R(80), composite_score) THEN "L3_GOLD"
    ELSE IF RLe(R(70), composite_score) THEN "L2_SILVER"
    ELSE IF RLe(R(60), composite_score) THEN "L1_BRONZE"
    ELSE "L0_UNVERIFIED"

(***************************************************************************)
(* _chitty_trust_calculation                                               *)
(***************************************************************************)
trust_scores_of(u, vs, hist) ==
    [d \in Dimensions |->
        CASE d = "source" -> _calculate_source_trust(u, vs)
          [] d = "temporal" -> _calculate_temporal_trust(hist)
          [] d = "channel" -> _calculate_channel_trust(vs)
          [] d = "outcome" -> _calculate_outcome_trust(vs)
          [] d = "network" -> _calculate_network_trust(u)
          [] d = "justice" -> _calculate_justice_trust(u, vs)]

_chitty_trust_calculation(u, vs, hist, clock) ==
    IF u = NoUser THEN [success |-> FALSE, error |-> "not found"]
    ELSE LET trust_scores == trust_scores_of(u, vs, hist)
             scores == workflow_scores(trust_scores)
         IN  [success |-> TRUE,
              data |-> [dimensions |-> trust_scores,
                        scores |-> scores,
                        verification_level |-> _get_verification_level(scores.composite),
                        calculated_at |-> clock,
                        data_source |-> "chittychain_database"]]

(***************************************************************************)
(* Specification of the trust calculation: the rows are the inputs, the    *)
(* calculation is run against them while the clock advances.               *)
(***************************************************************************)
Sites == {"workflow", "sample", "chitty_id"}
Grid == { (100 * k) \div GridSteps : k \in 0..GridSteps }
NoOutputs == [s \in Sites |-> None]
ZeroDims == [d \in Dimensions |-> 0]
IdleLevelCall == [fn |-> "none", score |-> R(0), level |-> "none"]
IdleWorkflow ==
    [pc |-> "idle", steps |-> <<>>, trust_result |-> None,
     verification_result |-> None, blockchain_result |-> None,
     evidence_result |-> None, returned |-> None]
Verifiers == 1..MaxVerifiers
IdleCall == [pc |-> "idle", request_id |-> 0, returned |-> None]

ScorersIdle ==
    /\ user = NoUser /\ verifications = <<>> /\ trust_history = <<>>
    /\ now = 0 /\ result = None /\ prev_result = None
    /\ calc_rows = <<>> /\ prev_calc_rows = <<>>
    /\ calc_history = <<>> /\ prev_calc_history = <<>>
SynthIdle ==
    /\ dims = ZeroDims /\ out = NoOutputs
    /\ prev_dims = ZeroDims /\ prev_out = NoOutputs
LevelsIdle == level_call = IdleLevelCall
TimelineIdle ==
    events = <<>> /\ rolling_scores = <<>> /\ timeline = <<>> /\ timeline_status = "idle"
WorkflowIdle == workflow = IdleWorkflow /\ chain = <<>> /\ ledger = <<>>
MarketIdle == requests = <<>> /\ claim_calls = [v \in Verifiers |-> IdleCall]
IdleLedgerCall == [fn |-> "none", arg |-> {}, returned |-> {}]
LedgerIdle ==
    /\ local_cache = <<>> /\ issued_tx = {} /\ reported = {}
    /\ ledger_call = IdleLedgerCall

InitCalc ==
    /\ user \in Users \cup {NoUser}
    /\ verifications \in SeqsUpTo(RequestRows, MaxReqs)
    /\ trust_history \in SeqsUpTo(HistoryScores, MaxHist)
    /\ now = 0
    /\ result = None
    /\ prev_result = None
    /\ calc_rows = <<>>
    /\ prev_calc_rows = <<>>
    /\ calc_history = <<>>
    /\ prev_calc_history = <<>>
    /\ SynthIdle /\ LevelsIdle /\ TimelineIdle
    /\ WorkflowIdle /\ MarketIdle /\ LedgerIdle

\* ChittyWorkflow._chitty_trust_calculation(user_id)
TrustCalculation ==
    /\ result' = _chitty_trust_calculation(user, verifications, trust_history, now)
    /\ prev_result' = result
    /\ calc_rows' = verifications
    /\ prev_calc_rows' = calc_rows
    /\ calc_history' = trust_history
    /\ prev_calc_history' = calc_history
    /\ UNCHANGED <<user, verifications, trust_history, now>>
    /\ UNCHANGED <<synthVars, levelVars, timelineVars, workflowVars, marketVars, ledgerVars>>

\* time passes between two requests
Tick ==
    /\ now < MaxClock
    /\ now' = now + 1
    /\ UNCHANGED <<user, verifications, trust_history, result, prev_result,
                   calc_rows, prev_calc_rows,
          calc_history, prev_calc_history>>
    /\ UNCHANGED <<synthVars, levelVars, timelineVars, workflowVars, marketVars, ledgerVars>>

NextCalc == TrustCalculation \/ Tick

SpecCalc == InitCalc /\ [][NextCalc]_vars

(***************************************************************************)
(* Specification of a growing request list: the user's requests are        *)
(* created one by one through the marketplace and the trust calculation    *)
(* is run on the rows present at the time.                                 *)
(***************************************************************************)
\* request_data accepted by MarketplaceService.create_verification_request
RequestData ==
    { [verification_type |-> "identity", reward_amount |-> 75,
       has_priority |-> FALSE, priority |-> "normal"],
      [verification_type |-> "document", reward_amount |-> 25,
       has_priority |-> TRUE, priority |-> "high"],
      [verification_type |-> "experience", reward_amount |-> 50,
       has_priority |-> TRUE, priority |-> "high"],
      [verification_type |-> "address", reward_amount |-> 10,
       has_priority |-> TRUE, priority |-> "high"] }

\* the row MarketplaceService.create_verification_request commits
create_verification_request(request_data) ==
    [status |-> "open",
     verification_type |-> request_data.verification_type,
     priority |-> IF request_data.has_priority THEN request_data.priority
                  ELSE "normal",
     reward_amount |-> request_data.reward_amount]

\* the users whose lists grow: one with the fields the sample users have, one
\* with no profile field at all
RequestUsers ==
    { u \in Users : ~u.profile_image_url /\ u.first_name = u.email
                                          /\ u.last_name = u.email }

\* the user starts with no request or with one request completed earlier
InitRequests ==
    /\ user \in RequestUsers
    /\ verifications \in
         {<<>>} \cup { <<r>> : r \in { v \in RequestRows : IsCompleted(v) } }
    /\ trust_history = <<>>
    /\ now = 0
    /\ result = None
    /\ prev_result = None
    /\ calc_rows = <<>>
    /\ prev_calc_rows = <<>>
    /\ calc_history = <<>>
    /\ prev_calc_history = <<>>
    /\ SynthIdle /\ LevelsIdle /\ TimelineIdle
    /\ WorkflowIdle /\ MarketIdle /\ LedgerIdle

\* POST /api/marketplace/requests
CreateVerificationRequest(request_data) ==
    /\ Len(verifications) < MaxCreated + 1
    /\ verifications' =
         Append(verifications, create_verification_request(request_data))
    /\ UNCHANGED <<user, trust_history, now, result, prev_result,
                   calc_rows, prev_calc_rows,
          calc_history, prev_calc_history>>
    /\ UNCHANGED <<synthVars, levelVars, timelineVars, workflowVars, marketVars, ledgerVars>>

NextRequests ==
    \/ \E request_data \in RequestData : CreateVerificationRequest(request_data)
    \/ TrustCalculation

SpecRequests == InitRequests /\ [][NextRequests]_vars

(***************************************************************************)
(* Specification of a growing trust history: snapshots are recorded one    *)
(* by one and the trust calculation is run on the rows present at the      *)
(* time.                                                                   *)
(***************************************************************************)
InitHistory ==
    /\ user \in RequestUsers
    /\ verifications = <<>>
    /\ trust_history \in SeqsUpTo(HistoryScores, MaxHist)
    /\ now = 0
    /\ result = None
    /\ prev_result = None
    /\ calc_rows = <<>>
    /\ prev_calc_rows = <<>>
    /\ calc_history = <<>>
    /\ prev_calc_history = <<>>
    /\ SynthIdle /\ LevelsIdle /\ TimelineIdle
    /\ WorkflowIdle /\ MarketIdle /\ LedgerIdle

\* TrustHistoryService.record_trust_snapshot: the new row is the newest one
RecordTrustSnapshot(composite) ==
    /\ Len(trust_history) < MaxHist + 1
    /\ trust_history' = <<composite>> \o trust_history
    /\ UNCHANGED <<user, verifications, now, result, prev_result,
                   calc_rows, prev_calc_rows, calc_history, prev_calc_history>>
    /\ UNCHANGED <<synthVars, levelVars, timelineVars, workflowVars, marketVars, ledgerVars>>

NextHistory ==
    \/ \E composite \in HistoryScores : RecordTrustSnapshot(composite)
    \/ TrustCalculation

SpecHistory == InitHistory /\ [][NextHistory]_vars

(***************************************************************************)
(* Specification of the synthesis: one vector of six dimension scores is   *)
(* handed to each of the three places that compute output scores.          *)
(***************************************************************************)
AsScores(v) == [d \in Dimensions |-> R(v[d])]
AsProfile(v) == [d \in Dimensions |-> Rat(v[d], 100)]

InitSynth ==
    /\ \E v \in Grid : dims = [d \in Dimensions |-> v]
    /\ out = NoOutputs
    /\ prev_dims = dims
    /\ prev_out = NoOutputs
    /\ ScorersIdle /\ LevelsIdle /\ TimelineIdle
    /\ WorkflowIdle /\ MarketIdle /\ LedgerIdle

\* the next vector differs from the last one in one dimension
NewDimensions(d, v) ==
    /\ \A s \in Sites : out[s] # None
    /\ v # dims[d]
    /\ prev_dims' = dims
    /\ prev_out' = out
    /\ dims' = [dims EXCEPT ![d] = v]
    /\ out' = NoOutputs
    /\ UNCHANGED <<scorerVars, levelVars, timelineVars, workflowVars, marketVars, ledgerVars>>

\* chitty_workflow.py lines 99-114
WorkflowSynthesis ==
    /\ out["workflow"] = None
    /\ out' = [out EXCEPT !["workflow"] = workflow_scores(AsScores(dims))]
    /\ UNCHANGED <<dims, prev_dims, prev_out>>
    /\ UNCHANGED <<scorerVars, levelVars, timelineVars, workflowVars, marketVars, ledgerVars>>

\* sample_data.py lines 156-160
SampleSynthesis ==
    /\ out["sample"] = None
    /\ out' = [out EXCEPT !["sample"] = sample_scores(AsScores(dims))]
    /\ UNCHANGED <<dims, prev_dims, prev_out>>
    /\ UNCHANGED <<scorerVars, levelVars, timelineVars, workflowVars, marketVars, ledgerVars>>

\* chitty_id_integration.py lines 113-139
InitialChittyScore ==
    /\ out["chitty_id"] = None
    /\ out' = [out EXCEPT !["chitty_id"] =
                   [chitty |-> _calculate_initial_chitty_score(AsProfile(dims))]]
    /\ UNCHANGED <<dims, prev_dims, prev_out>>
    /\ UNCHANGED <<scorerVars, levelVars, timelineVars, workflowVars, marketVars, ledgerVars>>

NextSynth ==
    \/ \E d \in Dimensions, v \in Grid : NewDimensions(d, v)
    \/ WorkflowSynthesis
    \/ SampleSynthesis
    \/ InitialChittyScore

SpecSynth == InitSynth /\ [][NextSynth]_vars

(***************************************************************************)
(* Specification of the score-to-level functions                           *)
(***************************************************************************)
LevelScores == { Rat(k, ScoreDenom) : k \in 0..(100 * ScoreDenom) }

InitLevels ==
    /\ ScorersIdle /\ SynthIdle /\ LevelsIdle /\ TimelineIdle
    /\ WorkflowIdle /\ MarketIdle /\ LedgerIdle

GetChittyLevel(s) ==
    /\ level_call' = [fn |-> "get_chitty_level", score |-> s,
                      level |-> get_chitty_level(s).level]
    /\ UNCHANGED <<scorerVars, synthVars, timelineVars, workflowVars, marketVars, ledgerVars>>

GetTrustLevel(s) ==
    /\ level_call' = [fn |-> "get_trust_level", score |-> s,
                      level |-> get_trust_level(s)]
    /\ UNCHANGED <<scorerVars, synthVars, timelineVars, workflowVars, marketVars, ledgerVars>>

BridgeGetTrustLevel(s) ==
    /\ level_call' = [fn |-> "_get_trust_level", score |-> s,
                      level |-> _get_trust_level(s)]
    /\ UNCHANGED <<scorerVars, synthVars, timelineVars, workflowVars, marketVars, ledgerVars>>

GetVerificationLevel(s) ==
    /\ level_call' = [fn |-> "_get_verification_level", score |-> s,
                      level |-> _get_verification_level(s)]
    /\ UNCHANGED <<scorerVars, synthVars, timelineVars, workflowVars, marketVars, ledgerVars>>

NextLevels ==
    \/ \E s \in LevelScores : GetChittyLevel(s)
    \/ \E s \in LevelScores : GetTrustLevel(s)
    \/ \E s \in LevelScores : BridgeGetTrustLevel(s)
    \/ \E s \in LevelScores : GetVerificationLevel(s)

SpecLevels == InitLevels /\ [][NextLevels]_vars

(***************************************************************************)
(* Specification of the timeline handler                                   *)
(***************************************************************************)
\* sorted(events, key=timestamp): a stable insertion sort
RECURSIVE Insert(_, _)
Insert(sorted, e) ==
    IF sorted = <<>> THEN <<e>>
    ELSE IF e < sorted[1] THEN <<e>> \o sorted
    ELSE <<sorted[1]>> \o Insert(Tail(sorted), e)

RECURSIVE SortedEvents(_)
SortedEvents(es) ==
    IF es = <<>> THEN <<>>
    ELSE Insert(SortedEvents(SubSeq(es, 1, Len(es) - 1)), es[Len(es)])

Max2(a, b) == IF a < b THEN b ELSE a

\* for i in range(i, len(sorted_events), step)
RECURSIVE RollingFrom(_, _, _)
RollingFrom(sorted_events, i, step) ==
    IF i >= Len(sorted_events) THEN <<>>
    ELSE LET subset_events == SubSeq(sorted_events, 1, i + 1)
             point == [date |-> subset_events[Len(subset_events)],
                       event_count |-> Len(subset_events)]
         IN  (IF Len(subset_events) >= 3 THEN <<point>> ELSE <<>>)
             \o RollingFrom(sorted_events, i + step, step)

\* variant: the minimum sample is two events
RECURSIVE RollingFromMinTwo(_, _, _)
RollingFromMinTwo(sorted_events, i, step) ==
    IF i >= Len(sorted_events) THEN <<>>
    ELSE LET subset_events == SubSeq(sorted_events, 1, i + 1)
             point == [date |-> subset_events[Len(subset_events)],
                       event_count |-> Len(subset_events)]
         IN  (IF Len(subset_events) >= 2 THEN <<point>> ELSE <<>>)
             \o RollingFromMinTwo(sorted_events, i + step, step)

rolling_scores_min_two(sorted_events) ==
    RollingFromMinTwo(sorted_events, 0, Max2(1, Len(sorted_events) \div 10))

compute_rolling_scores(sorted_events) ==
    RollingFrom(sorted_events, 0, Max2(1, Len(sorted_events) \div 10))

EventLists ==
    { [i \in 1..n |-> (i * m + c) % 10] :
        n \in 0..MaxEvents, m \in {1, 3, 7}, c \in 0..2 }

InitTimeline ==
    /\ events \in EventLists
    /\ rolling_scores = <<>>
    /\ timeline = <<>>
    /\ timeline_status = "idle"
    /\ ScorersIdle /\ SynthIdle /\ LevelsIdle
    /\ WorkflowIdle /\ MarketIdle /\ LedgerIdle

\* app.get_trust_timeline(persona_id) for a persona that exists
GetTrustTimeline ==
    /\ timeline' = SortedEvents(events)
    /\ rolling_scores' = compute_rolling_scores(SortedEvents(events))
    /\ timeline_status' = "done"
    /\ UNCHANGED events
    /\ UNCHANGED <<scorerVars, synthVars, levelVars, workflowVars, marketVars, ledgerVars>>

\* the persona's event list is replaced by another one
NewEvents(es) ==
    /\ timeline_status = "done"
    /\ events' = es
    /\ rolling_scores' = <<>>
    /\ timeline' = <<>>
    /\ timeline_status' = "idle"
    /\ UNCHANGED <<scorerVars, synthVars, levelVars, workflowVars, marketVars, ledgerVars>>

NextTimeline ==
    \/ GetTrustTimeline
    \/ \E es \in EventLists : NewEvents(es)

SpecTimeline == InitTimeline /\ [][NextTimeline]_vars

(***************************************************************************)
(* Specification of the workflow: execute_trust_verification_workflow      *)
(* runs its five steps for one user, and calculate_and_record_trust        *)
(* updates the same user row between executions.                           *)
(***************************************************************************)
\* the rows create_sample_users inserts: the columns the scorers read and the
\* stored trust_score and verification_level
SampleUsers ==
    { [chitty_id |-> "ALCE001", email |-> TRUE, first_name |-> TRUE,
       last_name |-> TRUE, profile_image_url |-> FALSE,
       verification_level |-> "L3", trust_score |-> Rat(785, 10)],
      [chitty_id |-> "BOBB002", email |-> TRUE, first_name |-> TRUE,
       last_name |-> TRUE, profile_image_url |-> FALSE,
       verification_level |-> "L2", trust_score |-> Rat(652, 10)],
      [chitty_id |-> "CHRL003", email |-> TRUE, first_name |-> TRUE,
       last_name |-> TRUE, profile_image_url |-> FALSE,
       verification_level |-> "L1", trust_score |-> Rat(458, 10)],
      [chitty_id |-> "DIAN004", email |-> TRUE, first_name |-> TRUE,
       last_name |-> TRUE, profile_image_url |-> FALSE,
       verification_level |-> "L4", trust_score |-> Rat(921, 10)] }

\* the day the workflow runs, and the 90 days of _verify_temporal_validity
Today == 100
RecentDays == 90

\* VerificationRequest rows with the day they were created
WorkflowRows ==
    { [status |-> "open", verification_type |-> "identity",
       priority |-> "normal", reward_amount |-> 75, created_at |-> 95],
      [status |-> "open", verification_type |-> "document",
       priority |-> "high", reward_amount |-> 25, created_at |-> 5],
      [status |-> "completed", verification_type |-> "skill",
       priority |-> "normal", reward_amount |-> -700, created_at |-> 95] }

\* composite scores the trust engine (calculate_trust) hands to
\* calculate_and_record_trust
EngineComposites == {R(60), R(95)}

RAbs(a) == [n |-> Abs(a.n), d |-> a.d]

\* user_id is the argument itself; the other required fields are those of
\* the trust data
_verify_data_completeness(trust_data) ==
    {"dimensions", "scores", "verification_level"} \subseteq DOMAIN trust_data

_verify_score_consistency(trust_data) ==
    LET dimensions == trust_data.dimensions
        composite == trust_data.scores.composite
        expected_composite ==
            RDivInt(RAdd(RAdd(RAdd(dimensions["source"], dimensions["temporal"]),
                              RAdd(dimensions["channel"], dimensions["outcome"])),
                         RAdd(dimensions["network"], dimensions["justice"])),
                    Cardinality(DOMAIN dimensions))
    IN  RLt(RAbs(RSub(composite, expected_composite)), R(1))

_verify_temporal_validity(vs, clock) ==
    LET cutoff_date == clock - RecentDays
    IN  \E i \in DOMAIN vs : vs[i].created_at >= cutoff_date

_verify_database_consistency(u) == u # NoUser

_verify_calculation_accuracy(trust_data) ==
    /\ \A k \in DOMAIN trust_data.scores : InRange(trust_data.scores[k])
    /\ \A d \in DOMAIN trust_data.dimensions : InRange(trust_data.dimensions[d])

integrity_checks_of(u, vs, clock, trust_data) ==
    [data_completeness |-> _verify_data_completeness(trust_data),
     score_consistency |-> _verify_score_consistency(trust_data),
     temporal_validity |-> _verify_temporal_validity(vs, clock),
     database_consistency |-> _verify_database_consistency(u),
     calculation_accuracy |-> _verify_calculation_accuracy(trust_data)]

\* raised is TRUE when a query of the step raises
_chitty_verify_process(u, vs, clock, trust_data, raised) ==
    IF raised THEN [success |-> FALSE, error |-> "verify failed"]
    ELSE LET integrity_checks == integrity_checks_of(u, vs, clock, trust_data)
         IN  [success |-> TRUE,
              verification_passed |->
                  \A c \in DOMAIN integrity_checks : integrity_checks[c],
              integrity_checks |-> integrity_checks,
              verifier |-> "ChittyVerify_v1.0"]

\* record_trust_event returns the transaction id, or "" when the write raised
_chitty_chain_recording(written) ==
    [success |-> TRUE,
     transaction_id |-> IF written THEN "ctx_sha256" ELSE "",
     blockchain_verified |-> TRUE]

\* record_trust_evidence returns the id of the page, or None
_evidence_ledger_documentation(page_id) ==
    [success |-> TRUE, evidence_id |-> page_id]

InitWorkflow ==
    /\ user \in SampleUsers \cup {NoUser}
    /\ verifications \in SeqsUpTo(WorkflowRows, MaxWfReqs)
    /\ trust_history = <<>>
    /\ now = Today
    /\ result = None /\ prev_result = None
    /\ calc_rows = <<>> /\ prev_calc_rows = <<>>
    /\ calc_history = <<>> /\ prev_calc_history = <<>>
    /\ WorkflowIdle
    /\ SynthIdle /\ LevelsIdle /\ TimelineIdle /\ MarketIdle /\ LedgerIdle

\* variant: a failed trust calculation is documented in the evidence ledger
StepTrustCalculationDocumentsFailure ==
    /\ workflow.pc = "idle"
    /\ Len(trust_history) < MaxRuns
    /\ LET trust_result ==
               _chitty_trust_calculation(user, verifications, trust_history, now)
           entered == [IdleWorkflow EXCEPT !.steps = <<"trust_calculation">>,
                                           !.trust_result = trust_result]
       IN  /\ workflow' =
                IF trust_result.success
                THEN [entered EXCEPT !.pc = "verify"]
                ELSE [entered EXCEPT
                        !.returned = [status |-> "failed",
                                      error |-> trust_result.error]]
           /\ ledger' =
                IF trust_result.success THEN ledger
                ELSE Append(ledger, [workflow_status |-> "failed",
                                     integrity_verified |-> FALSE,
                                     blockchain_tx |-> "no_blockchain_tx"])
    /\ UNCHANGED <<scorerVars, chain>>
    /\ UNCHANGED <<synthVars, levelVars, timelineVars, marketVars, ledgerVars>>

\* Step 1: ChittyTrust, and the return when it fails
StepTrustCalculation ==
    /\ workflow.pc = "idle"
    /\ Len(trust_history) < MaxRuns
    /\ LET trust_result ==
               _chitty_trust_calculation(user, verifications, trust_history, now)
           entered == [IdleWorkflow EXCEPT !.steps = <<"trust_calculation">>,
                                           !.trust_result = trust_result]
       IN  workflow' =
             IF trust_result.success
             THEN [entered EXCEPT !.pc = "verify"]
             ELSE [entered EXCEPT
                     !.returned = [status |-> "failed", error |-> trust_result.error]]
    /\ UNCHANGED <<scorerVars, chain, ledger>>
    /\ UNCHANGED <<synthVars, levelVars, timelineVars, marketVars, ledgerVars>>

\* variant: a failed verify step is reported as a completed workflow
StepVerifyFailureCompletes(raised) ==
    /\ workflow.pc = "verify"
    /\ LET verification_result ==
               _chitty_verify_process(user, verifications, now,
                                      workflow.trust_result.data, raised)
           stepped == [workflow EXCEPT
                         !.steps = Append(@, "verification"),
                         !.verification_result = verification_result]
       IN  workflow' =
             IF verification_result.success
             THEN [stepped EXCEPT !.pc = "chain"]
             ELSE [stepped EXCEPT
                     !.pc = "idle",
                     !.returned = [status |-> "completed",
                                   error |-> verification_result.error]]
    /\ UNCHANGED <<scorerVars, chain, ledger>>
    /\ UNCHANGED <<synthVars, levelVars, timelineVars, marketVars, ledgerVars>>

\* Step 2: ChittyVerify, and the return when it fails
StepVerify(raised) ==
    /\ workflow.pc = "verify"
    /\ LET verification_result ==
               _chitty_verify_process(user, verifications, now,
                                      workflow.trust_result.data, raised)
           stepped == [workflow EXCEPT
                         !.steps = Append(@, "verification"),
                         !.verification_result = verification_result]
       IN  workflow' =
             IF verification_result.success
             THEN [stepped EXCEPT !.pc = "chain"]
             ELSE [stepped EXCEPT
                     !.pc = "idle",
                     !.returned = [status |-> "failed",
                                   error |-> verification_result.error]]
    /\ UNCHANGED <<scorerVars, chain, ledger>>
    /\ UNCHANGED <<synthVars, levelVars, timelineVars, marketVars, ledgerVars>>

\* Step 3: ChittyChain; the verification hash covers the trust data and the
\* integrity checks
StepChainRecording(written) ==
    /\ workflow.pc = "chain"
    /\ workflow' = [workflow EXCEPT
                      !.pc = "ledger",
                      !.steps = Append(@, "blockchain_recording"),
                      !.blockchain_result = _chitty_chain_recording(written)]
    /\ chain' = IF written
                THEN Append(chain,
                       [trust_scores |-> workflow.trust_result.data.scores,
                        integrity_checks |->
                            workflow.verification_result.integrity_checks])
                ELSE chain
    /\ UNCHANGED <<scorerVars, ledger>>
    /\ UNCHANGED <<synthVars, levelVars, timelineVars, marketVars, ledgerVars>>

\* Step 4: Evidence Ledger
StepEvidenceLedger(stored) ==
    /\ workflow.pc = "ledger"
    /\ LET transaction_id == workflow.blockchain_result.transaction_id
           page_id == IF stored THEN [page |-> Len(ledger) + 1] ELSE None
       IN  /\ workflow' = [workflow EXCEPT
                             !.pc = "update",
                             !.steps = Append(@, "evidence_ledger"),
                             !.evidence_result =
                                 _evidence_ledger_documentation(page_id)]
           /\ ledger' =
                IF stored
                THEN Append(ledger,
                       [workflow_status |-> "completed",
                        integrity_verified |->
                            workflow.verification_result.verification_passed,
                        blockchain_tx |-> IF transaction_id # "" THEN transaction_id
                                          ELSE "no_blockchain_tx"])
                ELSE ledger
    /\ UNCHANGED <<scorerVars, chain>>
    /\ UNCHANGED <<synthVars, levelVars, timelineVars, marketVars, ledgerVars>>

\* Step 5: _update_database_records, and the return of the workflow.
\* user.chitty_level is not a column of User, so the assignment stores
\* nothing; the new TrustHistory row is the newest one.
StepUpdateDatabase ==
    /\ workflow.pc = "update"
    /\ LET trust_data == workflow.trust_result.data
       IN  /\ user' = [user EXCEPT !.trust_score = trust_data.scores.composite]
           /\ trust_history' = <<trust_data.scores.composite>> \o trust_history
           /\ workflow' = [workflow EXCEPT
                  !.pc = "idle",
                  !.steps = Append(@, "database_update"),
                  !.returned =
                      [status |-> "completed",
                       blockchain_transaction |->
                           workflow.blockchain_result.transaction_id,
                       evidence_ledger_id |-> workflow.evidence_result.evidence_id,
                       integrity_verified |-> TRUE]]
    /\ UNCHANGED <<verifications, now, result, prev_result, calc_rows,
                   prev_calc_rows, calc_history, prev_calc_history, chain, ledger>>
    /\ UNCHANGED <<synthVars, levelVars, timelineVars, marketVars, ledgerVars>>

\* variant: the snapshot replaces the newest row of the user
CalculateAndRecordTrustOverwrites(composite) ==
    /\ workflow.pc = "idle"
    /\ user # NoUser
    /\ Len(trust_history) < MaxRuns
    /\ trust_history' = IF trust_history = <<>> THEN <<composite>>
                        ELSE <<composite>> \o Tail(trust_history)
    /\ user' = [user EXCEPT !.trust_score = composite,
                            !.verification_level = get_trust_level(composite)]
    /\ UNCHANGED <<verifications, now, result, prev_result, calc_rows,
                   prev_calc_rows, calc_history, prev_calc_history>>
    /\ UNCHANGED <<synthVars, levelVars, timelineVars, workflowVars, marketVars, ledgerVars>>

\* TrustHistoryService.calculate_and_record_trust(user_id), run between two
\* executions of the workflow
CalculateAndRecordTrust(composite) ==
    /\ workflow.pc = "idle"
    /\ user # NoUser
    /\ Len(trust_history) < MaxRuns
    /\ trust_history' = <<composite>> \o trust_history
    /\ user' = [user EXCEPT !.trust_score = composite,
                            !.verification_level = get_trust_level(composite)]
    /\ UNCHANGED <<verifications, now, result, prev_result, calc_rows,
                   prev_calc_rows, calc_history, prev_calc_history>>
    /\ UNCHANGED <<synthVars, levelVars, timelineVars, workflowVars, marketVars, ledgerVars>>

NextWorkflow ==
    \/ StepTrustCalculation
    \/ \E raised \in BOOLEAN : StepVerify(raised)
    \/ \E written \in BOOLEAN : StepChainRecording(written)
    \/ \E stored \in BOOLEAN : StepEvidenceLedger(stored)
    \/ StepUpdateDatabase
    \/ \E composite \in EngineComposites : CalculateAndRecordTrust(composite)

SpecWorkflow == InitWorkflow /\ [][NextWorkflow]_vars

(***************************************************************************)
(* Specification of the marketplace: requests are created and verifiers    *)
(* claim them.  A claim reads the row and later commits its changes; the   *)
(* requests of different verifiers are served concurrently, each in its    *)
(* own database session, so other calls may run between the two.           *)
(* A nullable column holds the empty set (NULL) or the set of its value.   *)
(***************************************************************************)
\* the request_data the marketplace is given
MarketData == { d \in RequestData : d.verification_type = "identity" }

\* the row as committed by create_verification_request: status 'open' by
\* the column default, verifier_id and claimed_at NULL
new_request(request_data) ==
    [verifier_id |-> {}, claimed_at |-> {}]
        @@ create_verification_request(request_data)

\* variant: the claim does not stamp claimed_at
claimed_request_without_stamp(request_obj, verifier_id, clock) ==
    [request_obj EXCEPT !.verifier_id = {verifier_id},
                        !.status = "claimed"]

\* the assignments of claim_verification_request
claimed_request(request_obj, verifier_id, clock) ==
    [request_obj EXCEPT !.verifier_id = {verifier_id},
                        !.status = "claimed",
                        !.claimed_at = {clock}]

NotAvailable == [ok |-> FALSE, message |-> "Request not available"]
Claimed == [ok |-> TRUE, message |-> "Request claimed successfully"]

\* ids a claim may name: those of the table and one that is in no row
RequestIds == 1..(MaxRequests + 1)

InitMarket ==
    /\ ScorersIdle /\ SynthIdle /\ LevelsIdle /\ TimelineIdle
    /\ WorkflowIdle /\ MarketIdle /\ LedgerIdle

\* MarketplaceService.create_verification_request
MarketCreateRequest(request_data) ==
    /\ Len(requests) < MaxRequests
    /\ requests' = Append(requests, new_request(request_data))
    /\ UNCHANGED claim_calls
    /\ UNCHANGED <<scorerVars, synthVars, levelVars, timelineVars, workflowVars, ledgerVars>>

\* claim_verification_request up to its test: the row is read, and the call
\* returns when there is no such row or its status is not 'open'
ClaimRead(verifier_id, request_id) ==
    /\ claim_calls[verifier_id].pc = "idle"
    /\ LET available == /\ request_id \in DOMAIN requests
                        /\ requests[request_id].status = "open"
       IN  claim_calls' =
             [claim_calls EXCEPT ![verifier_id] =
                 IF available
                 THEN [pc |-> "commit", request_id |-> request_id,
                       returned |-> None]
                 ELSE [pc |-> "idle", request_id |-> request_id,
                       returned |-> NotAvailable]]
    /\ UNCHANGED requests
    /\ UNCHANGED <<scorerVars, synthVars, levelVars, timelineVars, workflowVars, ledgerVars>>

\* the rest of claim_verification_request: the assignments and the commit
ClaimCommit(verifier_id) ==
    /\ claim_calls[verifier_id].pc = "commit"
    /\ LET request_id == claim_calls[verifier_id].request_id
       IN  /\ requests' =
                [requests EXCEPT ![request_id] =
                    claimed_request(@, verifier_id, now)]
           /\ claim_calls' =
                [claim_calls EXCEPT ![verifier_id] =
                    [pc |-> "idle", request_id |-> request_id,
                     returned |-> Claimed]]
    /\ UNCHANGED <<scorerVars, synthVars, levelVars, timelineVars, workflowVars, ledgerVars>>

NextMarket ==
    \/ \E request_data \in MarketData : MarketCreateRequest(request_data)
    \/ \E verifier_id \in Verifiers, request_id \in RequestIds :
          ClaimRead(verifier_id, request_id)
    \/ \E verifier_id \in Verifiers : ClaimCommit(verifier_id)

SpecMarket == InitMarket /\ [][NextMarket]_vars

(***************************************************************************)
(* The ChittyChain ledger (chittychain_ledger.py) and the chain client     *)
(* (chittychain.py): create_ledger_entry writes the chain, the Evidence    *)
(* Ledger and local_cache; verify_trust_record reads the chain.            *)
(* An optional key of an entry is the empty set when absent, a singleton   *)
(* when present. sha256 is injective here: an id is the pair it hashes.    *)
(***************************************************************************)
LedgerUsers == {1, 2}
Clocks == 0..MaxClock

\* ctx_<sha256(record)[:16]>, the record holding user_id and the timestamp
TxId(user_id, clock) == [ctx |-> <<user_id, clock>>]
TransactionIds == {TxId(u, t) : u \in LedgerUsers, t \in Clocks}

\* chittychain_client.record_trust_event: the id it returns
record_trust_event(user_id, clock) == TxId(user_id, clock)

\* verify_trust_record: _simulate_blockchain_read answers for any
\* transaction_id and _verify_record_integrity is always True
verify_trust_record(transaction_id) ==
    [verified |-> TRUE, transaction_id |-> transaction_id]

\* cle_<sha256(user_id + utcnow)[:16]>
EntryIdOf(user_id, clock) == <<user_id, clock>>

\* asdict(LedgerEntry) as create_ledger_entry builds it
LedgerEntry(user_id, clock) ==
    [entry_id      |-> {EntryIdOf(user_id, clock)},
     id            |-> {},
     user_id       |-> user_id,
     timestamp     |-> {clock},
     blockchain_tx |-> {record_trust_event(user_id, clock)}]

\* entry.get('entry_id') or entry.get('id')
EntryKey(entry) == IF entry.entry_id # {} THEN entry.entry_id ELSE entry.id

\* self.local_cache[entry.entry_id] = asdict(entry): a dict keeps the
\* position of a key it already holds
CachePut(cache, entry) ==
    IF \E i \in 1..Len(cache) : cache[i].entry_id = entry.entry_id
    THEN [i \in 1..Len(cache) |->
              IF cache[i].entry_id = entry.entry_id THEN entry ELSE cache[i]]
    ELSE Append(cache, entry)

\* outcomes of evidence_ledger.record_trust_evidence: a page id, None when
\* the Notion request is refused, or an exception
EvidenceOutcomes == {"stored", "refused", "raised"}

\* _record_in_distributed_ledger: the cache is written after
\* record_trust_evidence returned and before its value is tested
_record_in_distributed_ledger(cache, entry, evidence) ==
    IF evidence = "raised"
    THEN [cache |-> cache, response |-> FALSE]
    ELSE [cache |-> CachePut(cache, entry), response |-> evidence = "stored"]

\* create_ledger_entry: the cache after the call and the value returned
create_ledger_entry(cache, user_id, clock, evidence) ==
    LET entry == LedgerEntry(user_id, clock)
        rec   == _record_in_distributed_ledger(cache, entry, evidence)
    IN  [cache    |-> rec.cache,
         returned |-> IF rec.response THEN entry.entry_id ELSE {}]

InitLedger ==
    /\ user = NoUser /\ verifications = <<>> /\ trust_history = <<>>
    /\ now = 0 /\ result = None /\ prev_result = None
    /\ calc_rows = <<>> /\ prev_calc_rows = <<>>
    /\ calc_history = <<>> /\ prev_calc_history = <<>>
    /\ SynthIdle /\ LevelsIdle /\ TimelineIdle
    /\ WorkflowIdle /\ MarketIdle
    /\ local_cache = <<>> /\ issued_tx = {} /\ reported = {}
    /\ ledger_call = IdleLedgerCall

CreateLedgerEntry(user_id, evidence) ==
    LET call == create_ledger_entry(local_cache, user_id, now, evidence)
    IN  /\ Len(local_cache) < MaxEntries
        /\ local_cache' = call.cache
        /\ issued_tx' = issued_tx \cup {record_trust_event(user_id, now)}
        /\ reported' = reported \cup call.returned
        /\ ledger_call' = [fn |-> "create_ledger_entry", arg |-> {user_id},
                           returned |-> call.returned]
        /\ UNCHANGED scorerVars
        /\ UNCHANGED <<synthVars, levelVars, timelineVars, workflowVars, marketVars>>

VerifyTrustRecord(transaction_id) ==
    /\ ledger_call' = [fn |-> "verify_trust_record", arg |-> {transaction_id},
                       returned |-> verify_trust_record(transaction_id)]
    /\ UNCHANGED <<local_cache, issued_tx, reported>>
    /\ UNCHANGED scorerVars
    /\ UNCHANGED <<synthVars, levelVars, timelineVars, workflowVars, marketVars>>

NextLedger ==
    \/ \E user_id \in LedgerUsers, evidence \in EvidenceOutcomes :
          CreateLedgerEntry(user_id, evidence)
    \/ \E transaction_id \in TransactionIds : VerifyTrustRecord(transaction_id)
    \/ Tick

SpecLedger == InitLedger /\ [][NextLedger]_vars

(***************************************************************************)
(* get_user_ledger_history (chittychain_ledger.py): the local cache is     *)
(* queried, the distributed ledger answers with a list of entries, and     *)
(* the two are merged, sorted and cut to limit.                            *)
(***************************************************************************)
LocalEntries == {LedgerEntry(u, t) : u \in LedgerUsers, t \in Clocks}

\* caches create_ledger_entry can have built: one entry per entry_id, in
\* the order of creation
Caches ==
    {c \in SeqsUpTo(LocalEntries, MaxEntries) :
        \A i, j \in 1..Len(c) :
            i < j => /\ c[i].entry_id # c[j].entry_id
                     /\ \A s \in c[i].timestamp, t \in c[j].timestamp : s <= t}

\* entries of response.json()['entries']: a copy of a local entry issued
\* with another timestamp, an entry keyed by 'id' with no timestamp, and
\* an entry with no id at all
RemoteCopy ==
    [entry_id |-> {EntryIdOf(1, 0)}, id |-> {}, user_id |-> 1,
     timestamp |-> {2}, blockchain_tx |-> {}]
RemoteById ==
    [entry_id |-> {}, id |-> {EntryIdOf(1, 1)}, user_id |-> 1,
     timestamp |-> {}, blockchain_tx |-> {}]
RemoteAnonymous ==
    [entry_id |-> {}, id |-> {}, user_id |-> 1,
     timestamp |-> {1}, blockchain_tx |-> {}]
RemoteEntries == {RemoteCopy, RemoteById, RemoteAnonymous}

\* what _query_distributed_ledger can return; <<>> also stands for a
\* failed request
DistributedHistories == SeqsUpTo(RemoteEntries, MaxRemote)
Limits == 0..MaxLimit

\* seq[:limit] for limit >= 0
Take(seq, limit) == SubSeq(seq, 1, IF limit < Len(seq) THEN limit ELSE Len(seq))

\* x.get('timestamp', ''): the empty string sorts below every timestamp
TimestampKey(entry) ==
    IF entry.timestamp = {} THEN -1 ELSE CHOOSE t \in entry.timestamp : TRUE

ForUser(user_id, entry) == entry.user_id = user_id

\* _query_local_ledger
_query_local_ledger(cache, user_id, limit) ==
    Take(SelectSeq(cache, LAMBDA entry : ForUser(user_id, entry)), limit)

\* a mutant: the distributed entries are read before the local ones
RECURSIVE MergeFrom(_, _, _, _)
_merge_ledger_histories_distributed_first(local_history, distributed_history) ==
    MergeFrom(distributed_history \o local_history, 1, {}, <<>>)

\* the loop of _merge_ledger_histories from position i on
MergeFrom(all, i, seen_entries, merged_history) ==
    IF i > Len(all) THEN merged_history
    ELSE LET entry_id == EntryKey(all[i])
         IN  IF entry_id # {} /\ ~(entry_id \subseteq seen_entries)
             THEN MergeFrom(all, i + 1, seen_entries \cup entry_id,
                            Append(merged_history, all[i]))
             ELSE MergeFrom(all, i + 1, seen_entries, merged_history)

\* _merge_ledger_histories
_merge_ledger_histories(local_history, distributed_history) ==
    MergeFrom(local_history \o distributed_history, 1, {}, <<>>)

\* list.sort(key=timestamp, reverse=True) is stable: an entry goes behind
\* the entries whose key is not lower
RECURSIVE InsertByTimestamp(_, _)
InsertByTimestamp(entry, sorted) ==
    IF sorted = <<>> THEN <<entry>>
    ELSE IF TimestampKey(Head(sorted)) >= TimestampKey(entry)
         THEN <<Head(sorted)>> \o InsertByTimestamp(entry, Tail(sorted))
         ELSE <<entry>> \o sorted

RECURSIVE SortByTimestamp(_, _)
SortByTimestamp(history, i) ==
    IF i = 0 THEN <<>>
    ELSE InsertByTimestamp(history[i], SortByTimestamp(history, i - 1))

\* get_user_ledger_history
get_user_ledger_history(cache, user_id, limit, include_cross_platform, response) ==
    LET local_history == _query_local_ledger(cache, user_id, limit)
        distributed_history == IF include_cross_platform THEN response ELSE <<>>
        all_history == _merge_ledger_histories(local_history, distributed_history)
    IN  Take(SortByTimestamp(all_history, Len(all_history)), limit)

InitLedgerHistory ==
    /\ user = NoUser /\ verifications = <<>> /\ trust_history = <<>>
    /\ now = MaxClock /\ result = None /\ prev_result = None
    /\ calc_rows = <<>> /\ prev_calc_rows = <<>>
    /\ calc_history = <<>> /\ prev_calc_history = <<>>
    /\ SynthIdle /\ LevelsIdle /\ TimelineIdle
    /\ WorkflowIdle /\ MarketIdle
    /\ local_cache \in Caches
    /\ issued_tx = UNION {local_cache[i].blockchain_tx : i \in 1..Len(local_cache)}
    /\ reported = {}
    /\ ledger_call = IdleLedgerCall

\* one request is served at a time
GetUserLedgerHistory(user_id, limit, include_cross_platform, response) ==
    /\ ledger_call = IdleLedgerCall
    /\ ledger_call' =
          [fn |-> "get_user_ledger_history",
           arg |-> [user_id |-> user_id, limit |-> limit,
                    distributed_history |->
                        IF include_cross_platform THEN response ELSE <<>>],
           returned |-> get_user_ledger_history(local_cache, user_id, limit,
                                                include_cross_platform, response)]
    /\ UNCHANGED <<local_cache, issued_tx, reported>>
    /\ UNCHANGED scorerVars
    /\ UNCHANGED <<synthVars, levelVars, timelineVars, workflowVars, marketVars>>

\* the response has been sent; the ledger waits for the next request
HistoryDelivered ==
    /\ ledger_call.fn = "get_user_ledger_history"
    /\ ledger_call' = IdleLedgerCall
    /\ UNCHANGED <<local_cache, issued_tx, reported>>
    /\ UNCHANGED scorerVars
    /\ UNCHANGED <<synthVars, levelVars, timelineVars, workflowVars, marketVars>>

NextLedgerHistory ==
    \/ \E user_id \in LedgerUsers, limit \in Limits,
          include_cross_platform \in BOOLEAN, response \in DistributedHistories :
           GetUserLedgerHistory(user_id, limit, include_cross_platform, response)
    \/ HistoryDelivered

SpecLedgerHistory == InitLedgerHistory /\ [][NextLedgerHistory]_vars

(***************************************************************************)
(* Properties of the trust calculation (SpecCalc)                          *)
(***************************************************************************)
Succeeded(r) == r # None /\ r.success

\* C1: every dimension score returned by the six scorers lies in [0,100],
\* for every user, request list (any status, type, priority, reward) and
\* trust history.
C1_ScorersInRange ==
    Succeeded(result) =>
        \A d \in Dimensions : InRange(result.data.dimensions[d])

\* C2: with no verification requests and an empty trust history every scorer
\* returns its non-zero baseline (source 50, temporal 50, channel 45,
\* outcome 50, justice 70, network 20 plus the profile points, at most 100)
\* and the composite is the arithmetic mean of the six.
C2_Baselines ==
    (Succeeded(result) /\ verifications = <<>> /\ trust_history = <<>>) =>
        LET t == result.data.dimensions
            total == RAdd(RAdd(RAdd(t["source"], t["temporal"]),
                               RAdd(t["channel"], t["outcome"])),
                          RAdd(t["network"], t["justice"]))
        IN  /\ t["source"] = R(50)
            /\ t["temporal"] = R(50)
            /\ t["channel"] = R(45)
            /\ t["outcome"] = R(50)
            /\ t["justice"] = R(70)
            /\ RLe(R(20), t["network"]) /\ RLe(t["network"], R(100))
            /\ \A d \in Dimensions : RLt(R(0), t[d])
            /\ RMul(result.data.scores.composite, R(6)) = total

C2_Witness ==
    /\ Succeeded(result) /\ verifications = <<>> /\ trust_history = <<>>
    /\ result.data.scores.composite = Rat(315, 6)

\* C8 as stated: two runs on the same rows return identical output.
C8_IdenticalOutput ==
    (prev_result # None /\ result # None) => prev_result = result

ScoresOf(r) ==
    IF r.success
    THEN [success |-> TRUE, dimensions |-> r.data.dimensions,
          scores |-> r.data.scores,
          verification_level |-> r.data.verification_level]
    ELSE [success |-> FALSE, error |-> r.error]

\* C8: two runs on the same rows return the same dimension scores, the same
\* composite and output scores and the same verification level; the
\* calculated_at field is the wall clock of each run.
C8_IdenticalScores ==
    (prev_result # None /\ result # None) => ScoresOf(prev_result) = ScoresOf(result)

C8_Witness ==
    /\ Succeeded(prev_result) /\ Succeeded(result)
    /\ prev_result.data.calculated_at # result.data.calculated_at
    /\ verifications = <<>> /\ trust_history = <<>>

(***************************************************************************)
(* Properties of the synthesis (SpecSynth)                                 *)
(***************************************************************************)
Computed(s) == out[s] # None
AllComputed == \A s \in Sites : Computed(s)

\* C3: for six dimension scores in [0,100] the composite and every output
\* score (people, legal, state, chitty) of every call site lie in [0,100].
C3_OutputsInRange ==
    \A s \in Sites :
        Computed(s) => \A f \in DOMAIN out[s] : InRange(out[s][f])

C3_Witness ==
    /\ AllComputed
    /\ \A d \in Dimensions : dims[d] = 100
    /\ out["workflow"].chitty = R(100)

OnlyChanged(d) ==
    /\ dims[d] # prev_dims[d]
    /\ \A e \in Dimensions \ {d} : dims[e] = prev_dims[e]

\* C4: at every call site the chitty score does not fall when only the
\* justice score, or only the outcome score, is raised (and does not rise
\* when it is lowered).
C4_ChittyMonotone ==
    \A s \in Sites : \A d \in {"justice", "outcome"} :
        (Computed(s) /\ prev_out[s] # None /\ OnlyChanged(d)) =>
            IF dims[d] > prev_dims[d]
            THEN RLe(prev_out[s].chitty, out[s].chitty)
            ELSE RLe(out[s].chitty, prev_out[s].chitty)

C4_Witness ==
    /\ AllComputed
    /\ \A s \in Sites : prev_out[s] # None
    /\ OnlyChanged("outcome")
    /\ dims["outcome"] > prev_dims["outcome"]
    /\ \A s \in Sites : RLt(prev_out[s].chitty, out[s].chitty)

\* The weight of a term of a chitty formula, measured at the current vector:
\* the change of the result when that term alone grows by one point.
WorkflowWeights ==
    LET j == R(dims["justice"])
        o == R(dims["outcome"])
        c == out["workflow"].composite
        f(x, y, z) == workflow_chitty_score(x, y, z)
    IN  [justice |-> RSub(f(RAdd(j, R(1)), o, c), f(j, o, c)),
         outcome |-> RSub(f(j, RAdd(o, R(1)), c), f(j, o, c)),
         base |-> RSub(f(j, o, RAdd(c, R(1))), f(j, o, c))]

SampleWeights ==
    LET j == R(dims["justice"])
        o == R(dims["outcome"])
        c == R(dims["source"])
        f(x, y, z) == sample_chitty_score(x, y, z)
    IN  [justice |-> RSub(f(RAdd(j, R(1)), o, c), f(j, o, c)),
         outcome |-> RSub(f(j, RAdd(o, R(1)), c), f(j, o, c)),
         base |-> RSub(f(j, o, RAdd(c, R(1))), f(j, o, c))]

ChittyIdWeights ==
    LET p == AsProfile(dims)
        j == p["justice"]
        o == p["outcome"]
        c == p["source"]
        a == RDivInt(RAdd(RAdd(p["temporal"], p["channel"]), p["network"]), 3)
        u == Rat(1, 100)
        f(x, y, z) == initial_chitty_formula(x, y, z, a)
    IN  [justice |-> RSub(f(RAdd(j, u), o, c), f(j, o, c)),
         outcome |-> RSub(f(j, RAdd(o, u), c), f(j, o, c)),
         base |-> RSub(f(j, o, RAdd(c, u)), f(j, o, c))]

WeightsAt(s) ==
    CASE s = "workflow" -> WorkflowWeights
      [] s = "sample" -> SampleWeights
      [] s = "chitty_id" -> ChittyIdWeights

\* C5 as stated: justice weight > outcome weight > composite/source weight.
C5_StrictWeightOrder ==
    \A s \in Sites :
        Computed(s) =>
            /\ RLt(WeightsAt(s).outcome, WeightsAt(s).justice)
            /\ RLt(WeightsAt(s).base, WeightsAt(s).outcome)

\* C5: at every call site the weight on justice is strictly greater than the
\* weight on outcome, and the weight on outcome is greater than or equal to
\* the weight on the composite/source term.
C5_WeightOrder ==
    \A s \in Sites :
        Computed(s) =>
            /\ RLt(WeightsAt(s).outcome, WeightsAt(s).justice)
            /\ RLe(WeightsAt(s).base, WeightsAt(s).outcome)

C5_Witness ==
    /\ AllComputed
    /\ WeightsAt("workflow").outcome = WeightsAt("workflow").base
    /\ WeightsAt("sample").outcome = WeightsAt("sample").base
    /\ RLt(WeightsAt("chitty_id").base, WeightsAt("chitty_id").outcome)

AllEqual(v) == \A d \in Dimensions : dims[d] = v

\* C6: people, legal and state are linear combinations of the six dimension
\* scores with weights summing to 1: six equal scores v give exactly v.
C6_WeightsSumToOne ==
    \A s \in {"workflow", "sample"} : \A v \in Grid :
        (Computed(s) /\ AllEqual(v)) =>
            /\ out[s].people = R(v)
            /\ out[s].legal = R(v)
            /\ out[s].state = R(v)

\* C10: every call site computes the same chitty score for the same six
\* dimension scores.
C10_OneChittyPolicy ==
    AllComputed =>
        /\ out["workflow"].chitty = out["sample"].chitty
        /\ out["sample"].chitty = out["chitty_id"].chitty

(***************************************************************************)
(* Properties of the score-to-level functions (SpecLevels)                 *)
(***************************************************************************)
LevelNumber(l) ==
    CASE l \in {"L0", "L0_UNVERIFIED"} -> 0
      [] l \in {"L1", "L1_BRONZE"} -> 1
      [] l \in {"L2", "L2_SILVER"} -> 2
      [] l \in {"L3", "L3_GOLD"} -> 3
      [] l \in {"L4", "L4_PLATINUM"} -> 4
      [] OTHER -> -1

\* C7: every score-to-level function gives each score in [0,100] one of its
\* five tiers, the same tier whenever it is asked again, and a higher score
\* never gets a lower tier than a lower score.
C7_LevelsTotalAndMonotone ==
    [][ /\ LevelNumber(level_call'.level) \in 0..4
        /\ (level_call'.fn = level_call.fn /\ level_call'.score = level_call.score)
              => level_call'.level = level_call.level
        /\ (level_call'.fn = level_call.fn /\ RLe(level_call.score, level_call'.score))
              => LevelNumber(level_call.level) <= LevelNumber(level_call'.level)
      ]_vars

C7_Witness ==
    /\ level_call.fn = "get_trust_level"
    /\ level_call.score = R(75)
    /\ level_call.level = "L3"

(***************************************************************************)
(* Properties of the timeline (SpecTimeline)                               *)
(***************************************************************************)
\* C9: the event_count of successive rolling-score points is strictly
\* increasing and no point covers fewer than three events.
C9_RollingScoresGrow ==
    timeline_status = "done" =>
        \A i \in DOMAIN rolling_scores :
            /\ rolling_scores[i].event_count >= 3
            /\ i > 1 => rolling_scores[i - 1].event_count < rolling_scores[i].event_count

C9_Witness ==
    /\ timeline_status = "done"
    /\ Len(events) >= 20
    /\ Len(rolling_scores) >= 2
    /\ rolling_scores[1].event_count = 3

C11_OneDefault ==
    (Succeeded(result) /\ Len(trust_history) < 2) =>
        result.data.dimensions["temporal"] = _calculate_temporal_trust(<<>>)

\* C11: the temporal score is 50 for an empty history and 65 for a history
\* with exactly one snapshot, whatever the snapshot is.
C11_TwoDefaults ==
    (Succeeded(result) /\ Len(trust_history) < 2) =>
        result.data.dimensions["temporal"] =
            (IF Len(trust_history) = 0 THEN R(50) ELSE R(65))

C11_Witness ==
    /\ Succeeded(result)
    /\ Len(trust_history) = 1
    /\ result.data.dimensions["temporal"] = R(65)

RECURSIVE SumOfSquares(_)
SumOfSquares(s) ==
    IF s = <<>> THEN R(0) ELSE RAdd(RMul(s[1], s[1]), SumOfSquares(Tail(s)))

\* population variance as E[x^2] - E[x]^2
PopulationVariance(hist) ==
    LET m == RDivInt(RSum(hist), Len(hist))
    IN  RSub(RDivInt(SumOfSquares(hist), Len(hist)), RMul(m, m))

TemporalFormula(hist) ==
    RMin(R(100), RMax(R(0), RSub(R(100), RMul(R(2), PopulationVariance(hist)))))

AllSnapshotsEqual(hist) == \A i \in DOMAIN hist : hist[i] = hist[1]

\* C12: for two or more snapshots the temporal score is
\* min(100, max(0, 100 - 2V)), V the population variance; it is 100 exactly
\* when all snapshots are equal, and of two calculations the one whose
\* history has at least the variance of the other's scores no higher.
C12_TemporalFromVariance ==
    (Succeeded(result) /\ Len(calc_history) >= 2) =>
        LET t == result.data.dimensions["temporal"]
        IN  /\ t = TemporalFormula(calc_history)
            /\ (t = R(100)) <=> AllSnapshotsEqual(calc_history)
            /\ (Succeeded(prev_result) /\ Len(prev_calc_history) >= 2
                /\ RLe(PopulationVariance(prev_calc_history),
                       PopulationVariance(calc_history)))
                  => RLe(t, prev_result.data.dimensions["temporal"])

\* a further snapshot raised the variance and lowered the score
C12_Witness ==
    /\ Succeeded(result) /\ Succeeded(prev_result)
    /\ Len(prev_calc_history) >= 2
    /\ Len(calc_history) > Len(prev_calc_history)
    /\ RLt(PopulationVariance(prev_calc_history), PopulationVariance(calc_history))
    /\ RLt(R(0), result.data.dimensions["temporal"])
    /\ RLt(result.data.dimensions["temporal"],
           prev_result.data.dimensions["temporal"])

(***************************************************************************)
(* Properties of the scorers on a growing request list (SpecRequests)      *)
(***************************************************************************)
\* the second list is the first one with requests added at the end
Extends(before, after) ==
    /\ Len(before) < Len(after)
    /\ SubSeq(after, 1, Len(before)) = before

AddedRows(before, after) ==
    { after[i] : i \in (Len(before) + 1)..Len(after) }

\* two calculations ran, the later one on a longer list
Recalculated ==
    /\ Succeeded(result) /\ Succeeded(prev_result)
    /\ Extends(prev_calc_rows, calc_rows)

\* C13: when the requests added between two calculations are all not
\* completed, the source score of the later calculation is not lower.
C13_UnverifiedDoNotSubtract ==
    (Recalculated /\ \A r \in AddedRows(prev_calc_rows, calc_rows) : ~IsCompleted(r))
        => RLe(prev_result.data.dimensions["source"],
               result.data.dimensions["source"])

DistinctChannels(rows) ==
    Cardinality({ rows[i].verification_type : i \in DOMAIN rows })

\* C14: the channel score is at least 45 for every list of requests, and of
\* two calculations the one that saw at least as many distinct verification
\* types has at least as high a channel score.
C14_ChannelFloorAndMonotone ==
    /\ Succeeded(result) => RLe(R(45), result.data.dimensions["channel"])
    /\ (Succeeded(result) /\ Succeeded(prev_result)
        /\ DistinctChannels(prev_calc_rows) <= DistinctChannels(calc_rows))
          => RLe(prev_result.data.dimensions["channel"],
                 result.data.dimensions["channel"])

\* a single channel scored 45 and further channels raised the score
C14_Witness ==
    /\ Recalculated
    /\ DistinctChannels(prev_calc_rows) = 1
    /\ prev_result.data.dimensions["channel"] = R(45)
    /\ RLt(R(45), result.data.dimensions["channel"])

\* C15: without requests the justice score is the baseline 70; the score
\* never exceeds the baseline by more than 20, so it stays below 100; and
\* of two calculations the one that saw at least as many high-priority
\* requests has at least as high a justice score.
C15_JusticeBaselineAndCap ==
    /\ (Succeeded(result) /\ calc_rows = <<>>)
          => result.data.dimensions["justice"] = R(70)
    /\ Succeeded(result) =>
          /\ RLe(R(70), result.data.dimensions["justice"])
          /\ RLe(RSub(result.data.dimensions["justice"], R(70)), R(20))
          /\ RLt(result.data.dimensions["justice"], R(100))
    /\ (Succeeded(result) /\ Succeeded(prev_result)
        /\ CountHighPriority(prev_calc_rows) <= CountHighPriority(calc_rows))
          => RLe(prev_result.data.dimensions["justice"],
                 result.data.dimensions["justice"])

\* a fifth high-priority request no longer raises the score
C15_Witness ==
    /\ Recalculated
    /\ CountHighPriority(prev_calc_rows) = 4
    /\ CountHighPriority(calc_rows) = 5
    /\ prev_result.data.dimensions["justice"] = R(90)
    /\ result.data.dimensions["justice"] = R(90)

(***************************************************************************)
(* Properties of the workflow (SpecWorkflow)                               *)
(***************************************************************************)
StepOrder ==
    <<"trust_calculation", "verification", "blockchain_recording",
      "evidence_ledger", "database_update">>

StepDone(name) == \E i \in DOMAIN workflow.steps : workflow.steps[i] = name

StepFailed(step_result) == step_result # None /\ ~step_result.success

Returned(status) ==
    workflow.returned # None /\ workflow.returned.status = status

C17_OnlyVerifiedRecorded ==
    (\/ StepDone("blockchain_recording")
     \/ (Returned("completed") /\ workflow.returned.integrity_verified))
        => workflow.verification_result.verification_passed

\* C20: the stored verification_level of the user is get_trust_level of the
\* stored trust_score.
C20_LevelMatchesScore ==
    user # NoUser => user.verification_level = get_trust_level(user.trust_score)

(***************************************************************************)
(* Properties of the marketplace (SpecMarket)                              *)
(***************************************************************************)
\* the last call of the verifier was a claim of this request and succeeded
ClaimSucceeded(verifier_id, request_id) ==
    /\ claim_calls[verifier_id].request_id = request_id
    /\ claim_calls[verifier_id].returned = Claimed

Winners(request_id) ==
    { v \in Verifiers : ClaimSucceeded(v, request_id) }

\* C18: of the claims of one request at most one has returned success, and
\* the verifier_id of the request is that of the caller who succeeded.
C18_OneWinner ==
    \A request_id \in DOMAIN requests :
        /\ Cardinality(Winners(request_id)) <= 1
        /\ \A v \in Winners(request_id) :
              requests[request_id].verifier_id = {v}

C19_Columns ==
    \A request_id \in DOMAIN requests :
        LET r == requests[request_id]
        IN  /\ r.status \in {"open", "claimed"}
            /\ r.status = "open" => (r.verifier_id = {} /\ r.claimed_at = {})
            /\ r.status = "claimed" => (r.verifier_id # {} /\ r.claimed_at # {})

\* a call that started in this step and named a missing or non-open request
C19_Refusal ==
    \A v \in Verifiers :
        (claim_calls[v].pc = "idle" /\ claim_calls'[v] # claim_calls[v]) =>
            LET request_id == claim_calls'[v].request_id
                unavailable == \/ request_id \notin DOMAIN requests
                               \/ requests[request_id].status # "open"
            IN  unavailable => /\ claim_calls'[v].returned = NotAvailable
                               /\ claim_calls'[v].pc = "idle"
                               /\ requests' = requests

\* C19: every open request has no verifier_id and no claimed_at, every
\* claimed request has both, and a claim of a missing or non-open request
\* returns (False, 'Request not available') and changes no request.
C19_RequestColumns == []C19_Columns /\ [][C19_Refusal]_vars

\* a request is claimed and a later claim of it was refused
C19_Witness ==
    \E request_id \in DOMAIN requests, v \in Verifiers :
        /\ requests[request_id].status = "claimed"
        /\ requests[request_id].verifier_id # {v}
        /\ requests[request_id].claimed_at # {}
        /\ claim_calls[v].request_id = request_id
        /\ claim_calls[v].returned = NotAvailable

(***************************************************************************)
(* Properties of the trust history and of the failed workflow              *)
(* (SpecWorkflow)                                                          *)
(***************************************************************************)
\* the rows that existed before the step are the oldest rows after it
RowsKept ==
    /\ Len(trust_history') >= Len(trust_history)
    /\ SubSeq(trust_history', Len(trust_history') - Len(trust_history) + 1,
              Len(trust_history')) = trust_history

\* the step is a call of calculate_and_record_trust, the only operation that
\* leaves the workflow as it is
SnapshotRecorded == workflow' = workflow /\ trust_history' # trust_history

\* the step is the database update of the workflow
DatabaseUpdated == workflow.pc = "update" /\ workflow'.pc = "idle"

\* C21: every step keeps the existing TrustHistory rows as they are, and a
\* recorded snapshot or a database update of the workflow adds exactly one
\* row, the newest.
C21_HistoryAppendOnly ==
    [][/\ RowsKept
       /\ (SnapshotRecorded \/ DatabaseUpdated) =>
             Len(trust_history') = Len(trust_history) + 1]_vars

\* one row was recorded by each of the two writers
C21_Witness ==
    /\ Len(trust_history) >= 2
    /\ trust_history[1] \in EngineComposites
    /\ trust_history[2] \notin EngineComposites
    /\ Returned("completed")

\* C22: when the user is not found, the workflow returns 'failed' after the
\* trust calculation, and no step writes a blockchain record, an evidence
\* document, a TrustHistory row or a user row.
C22_NotFoundNoEffects ==
    /\ [](user = NoUser =>
            /\ chain = <<>> /\ ledger = <<>> /\ trust_history = <<>>
            /\ workflow.pc = "idle"
            /\ workflow.returned # None =>
                  /\ workflow.returned.status = "failed"
                  /\ workflow.steps = <<"trust_calculation">>)
    /\ [][user = NoUser =>
            UNCHANGED <<user, chain, ledger, trust_history>>]_vars

C22_Witness ==
    /\ user = NoUser
    /\ Returned("failed")
    /\ workflow.steps = <<"trust_calculation">>
    /\ StepFailed(workflow.trust_result)

\* C27: the level is a function of the score through one fixed set of
\* thresholds: get_chitty_level, get_trust_level, the bridge's
\* _get_trust_level and _get_verification_level give the same level number
\* L0..L4 to the same score.
C27_OneThresholdSet ==
    level_call.fn # "none" =>
        /\ LevelNumber(level_call.level) = LevelNumber(get_chitty_level(level_call.score).level)
        /\ LevelNumber(level_call.level) = LevelNumber(get_trust_level(level_call.score))
        /\ LevelNumber(level_call.level) = LevelNumber(_get_trust_level(level_call.score))
        /\ LevelNumber(level_call.level) = LevelNumber(_get_verification_level(level_call.score))

(***************************************************************************)
(* Properties of the ledger history (SpecLedgerHistory)                    *)
(***************************************************************************)
HistoryReturned == ledger_call.fn = "get_user_ledger_history"
Elements(seq) == {seq[i] : i \in 1..Len(seq)}
Keys(seq) == UNION {EntryKey(entry) : entry \in Elements(seq)}
LocalHistoryOfCall ==
    _query_local_ledger(local_cache, ledger_call.arg.user_id, ledger_call.arg.limit)

\* C23: the list returned by get_user_ledger_history has no two entries
\* with the same entry id, is ordered by timestamp from most recent to
\* oldest, has at most limit entries (limit >= 0), and an entry whose id
\* occurs in both the local and the distributed history is the local one.
C23_HistoryMerged ==
    HistoryReturned =>
        LET history == ledger_call.returned
        IN  /\ \A i, j \in 1..Len(history) :
                  i < j => /\ EntryKey(history[i]) # EntryKey(history[j])
                           /\ TimestampKey(history[i]) >= TimestampKey(history[j])
            /\ \A i \in 1..Len(history) : EntryKey(history[i]) # {}
            /\ Len(history) <= ledger_call.arg.limit
            /\ \A i \in 1..Len(history) :
                  (/\ EntryKey(history[i]) \subseteq Keys(LocalHistoryOfCall)
                   /\ EntryKey(history[i]) \subseteq Keys(ledger_call.arg.distributed_history))
                      => history[i] \in Elements(LocalHistoryOfCall)

\* a call that returned a local entry the distributed ledger also holds,
\* next to an entry only the distributed ledger holds
C23_Witness ==
    /\ HistoryReturned
    /\ Len(ledger_call.returned) >= 2
    /\ \E entry \in Elements(ledger_call.returned) :
          /\ entry \in Elements(LocalHistoryOfCall)
          /\ EntryKey(entry) \subseteq Keys(ledger_call.arg.distributed_history)
    /\ \E entry \in Elements(ledger_call.returned) :
          entry \notin Elements(LocalHistoryOfCall)

(***************************************************************************)
(* Properties of the ledger and the chain client (SpecLedger)              *)
(***************************************************************************)
CreateReturned(call) == call.fn = "create_ledger_entry"

\* C24: if create_ledger_entry returns None (creation failed), the ledger's
\* local_cache is unchanged by the call, so every cached entry was reported
\* to its creator as a created entry id.
C24_FailedCreateLeavesCache ==
    [][(CreateReturned(ledger_call') /\ ledger_call'.returned = {})
          => local_cache' = local_cache]_vars

\* C25: verify_trust_record returns verified = True for a transaction id
\* only if an earlier record_trust_event call returned that id.
C25_VerifiedWasRecorded ==
    (ledger_call.fn = "verify_trust_record" /\ ledger_call.returned.verified)
        => ledger_call.arg \subseteq issued_tx

====
